---- MODULE Spec2Model ----
(***************************************************************************)
(* i18n-sync: synchronises locale catalogs against a source catalog.       *)
(* Model of src/src/i18n-sync.ts: the tree diff (addMissingKeys), the      *)
(* batched translation pipeline (translateAndApply,                        *)
(* callOpenAiTranslateBatch, withRetries, fetchWithTimeout) and the        *)
(* per-catalog part of main.                                                *)
(***************************************************************************)
EXTENDS Naturals, Sequences, FiniteSets, TLC

(***************************************************************************)
(* JSON values (type JsonValue, lines 7-9).  Every value is a record of    *)
(* the same shape: its JavaScript type tag, its text (a sequence of        *)
(* characters, used by strings) and its entries (used by objects, kept in  *)
(* key insertion order as Object.entries yields them).                     *)
(***************************************************************************)
Str(chars) == [type |-> "string", str |-> chars, ent |-> <<>>]
Num == [type |-> "number", str |-> <<"5">>, ent |-> <<>>]
Null == [type |-> "null", str |-> <<>>, ent |-> <<>>]
Bool == [type |-> "boolean", str |-> <<"t">>, ent |-> <<>>]
Arr == [type |-> "array", str |-> <<"[", "]">>, ent |-> <<>>]
Undefined == [type |-> "undefined", str |-> <<>>, ent |-> <<>>]
Obj(entries) == [type |-> "object", str |-> <<>>, ent |-> entries]
Entry(k, v) == [key |-> k, val |-> v]
EmptyObj == Obj(<<>>)

(* Texts used as catalog contents and provider output. *)
Empty == <<>>
Blank == <<" ">>
Hi == <<"H", "i">>
Yo == <<"Y", "o">>
Ja == <<"J", "a">>
Si == <<"S", "i">>

(* Position of key k among the entries of an object, 0 when it has none. *)
IndexOf(entries, k) ==
    IF \E n \in 1..Len(entries) : entries[n].key = k
    THEN CHOOSE n \in 1..Len(entries) : entries[n].key = k
    ELSE 0

(* obj[k]: the property read of JavaScript; undefined for a missing key *)
(* and for a receiver that holds no own entries.                        *)
Get(obj, k) ==
    IF obj.type = "object" /\ IndexOf(obj.ent, k) # 0
    THEN obj.ent[IndexOf(obj.ent, k)].val
    ELSE Undefined

(* obj[k] = v: an existing key keeps its position, a new key is appended. *)
(* The variant for comparison assigns only to a key the object has.       *)
PutIfPresent(obj, k, v) ==
    IF IndexOf(obj.ent, k) # 0
    THEN Obj([obj.ent EXCEPT ![IndexOf(obj.ent, k)] = Entry(k, v)])
    ELSE obj
Put(obj, k, v) ==
    IF IndexOf(obj.ent, k) # 0
    THEN Obj([obj.ent EXCEPT ![IndexOf(obj.ent, k)] = Entry(k, v)])
    ELSE Obj(Append(obj.ent, Entry(k, v)))

(* list[k - 1] of JavaScript: undefined outside the list. *)
At(list, k) == IF k \in 1..Len(list) THEN list[k] ELSE Undefined

(* isTypeObject, lines 360-362. *)
isTypeObject(value) == value.type = "object"

(* The test of line 351: the target already holds a translation.  The   *)
(* loose variant drops the length test and accepts any string.          *)
HasTranslationLoose(targetValue) == targetValue.type = "string"
HasTranslation(targetValue) ==
    targetValue.type = "string" /\ Len(targetValue.str) > 0

(***************************************************************************)
(* addMissingKeys, lines 322-358.  The function mutates target and keys in *)
(* place; the operator returns both.  addMissingKeysFrom is the for loop   *)
(* over Object.entries(source) from entry n on.                            *)
(***************************************************************************)
RECURSIVE addMissingKeysFrom(_, _, _, _, _)
addMissingKeysFrom(source, target, keyPath, keys, n) ==
    IF n > Len(source.ent)
    THEN [target |-> target, keys |-> keys]
    ELSE
        LET key == source.ent[n].key
            sourceValue == source.ent[n].val
            currentPath == Append(keyPath, key)
            targetValue == Get(target, key)
        IN  IF isTypeObject(sourceValue)
            THEN LET child == IF isTypeObject(targetValue)
                              THEN targetValue
                              ELSE EmptyObj
                     sub == addMissingKeysFrom(sourceValue, child,
                                               currentPath, keys, 1)
                 IN  addMissingKeysFrom(source, Put(target, key, sub.target),
                                        keyPath, sub.keys, n + 1)
            ELSE IF sourceValue.type # "string"
            THEN addMissingKeysFrom(source, target, keyPath, keys, n + 1)
            ELSE IF HasTranslation(targetValue)
            THEN addMissingKeysFrom(source, target, keyPath, keys, n + 1)
            ELSE addMissingKeysFrom(
                     source, Put(target, key, Str(Empty)), keyPath,
                     Append(keys, [key |-> currentPath,
                                   value |-> sourceValue.str]),
                     n + 1)

(* The variant for comparison walks the entries of the root from the last  *)
(* to the first.                                                           *)
addMissingKeysReversed(source, target, keyPath, keys) ==
    LET last == Len(source.ent)
        reversed == [n \in 1..last |-> source.ent[last + 1 - n]]
    IN  addMissingKeysFrom(Obj(reversed), target, keyPath, keys, 1)

addMissingKeys(source, target, keyPath, keys) ==
    addMissingKeysFrom(source, target, keyPath, keys, 1)

(* Program constants. *)
BATCH_SIZE == 20
attempts == 3
BackoffBase == 400

(* Number of successive invocations of the tool on the same directory. *)
MaxRuns == 2

(* Largest number of tasks of a catalog when the batches are looked at. *)
MaxTasks == 41

(***************************************************************************)
(* String.prototype.trim, as used at lines 129, 143 and 148: strips white  *)
(* space from both ends.                                                   *)
(***************************************************************************)
WhiteSpace == {" ", "\t", "\n"}

RECURSIVE trimStart(_)
trimStart(chars) ==
    IF Len(chars) > 0 /\ Head(chars) \in WhiteSpace
    THEN trimStart(Tail(chars))
    ELSE chars

RECURSIVE trimEnd(_)
trimEnd(chars) ==
    IF Len(chars) > 0 /\ chars[Len(chars)] \in WhiteSpace
    THEN trimEnd(SubSeq(chars, 1, Len(chars) - 1))
    ELSE chars

trim(chars) == trimEnd(trimStart(chars))

(* The filter of line 129 and the tests of lines 143 and 148. *)
IsNonEmptyText(chars) == Len(chars) > 0
IsTranslatableText(chars) == Len(trim(chars)) > 0

(* batch.filter(...) of line 129, order kept. *)
toTranslateOf(batch) ==
    SelectSeq(batch, LAMBDA task : IsTranslatableText(task.value))

(* keys.slice(i, i + BATCH_SIZE), line 116; i is the 0-based start. *)
(* The variants take one item less and one item more.                 *)
Min(a, b) == IF a < b THEN a ELSE b
batchOfShort(allKeys, i) ==
    SubSeq(allKeys, i + 1, Min(i + BATCH_SIZE - 1, Len(allKeys)))
batchOfOverlap(allKeys, i) ==
    SubSeq(allKeys, i + 1, Min(i + BATCH_SIZE + 1, Len(allKeys)))
batchOf(allKeys, i) == SubSeq(allKeys, i + 1, Min(i + BATCH_SIZE, Len(allKeys)))

(***************************************************************************)
(* Lines 139-145: the provider's list is consumed by a counter that        *)
(* advances only on translatable items.  Two variants for comparison: one  *)
(* indexes the list by the item's position in the batch, one leaves a      *)
(* blank item's own text in place.                                         *)
(***************************************************************************)
RECURSIVE zipBulkByPosition(_, _, _, _)
zipBulkByPosition(batch, translated, n, used) ==
    IF n > Len(batch)
    THEN <<>>
    ELSE IF ~IsTranslatableText(batch[n].value)
    THEN <<Str(Empty)>> \o zipBulkByPosition(batch, translated, n + 1, used)
    ELSE <<At(translated, n)>>
         \o zipBulkByPosition(batch, translated, n + 1, used)

RECURSIVE zipBulkKeepBlank(_, _, _, _)
zipBulkKeepBlank(batch, translated, n, used) ==
    IF n > Len(batch)
    THEN <<>>
    ELSE IF ~IsTranslatableText(batch[n].value)
    THEN <<Str(batch[n].value)>>
         \o zipBulkKeepBlank(batch, translated, n + 1, used)
    ELSE <<At(translated, used + 1)>>
         \o zipBulkKeepBlank(batch, translated, n + 1, used + 1)

RECURSIVE zipBulk(_, _, _, _)
zipBulk(batch, translated, n, used) ==
    IF n > Len(batch)
    THEN <<>>
    ELSE IF ~IsTranslatableText(batch[n].value)
    THEN <<Str(Empty)>> \o zipBulk(batch, translated, n + 1, used)
    ELSE <<At(translated, used + 1)>>
         \o zipBulk(batch, translated, n + 1, used + 1)

(* const [key] = ..., line 153; the variant takes the list itself. *)
takeSingleWhole(list) == Arr
takeSingle(list) == At(list, 1)

(* The value pushed at line 161; the variant pushes "" instead. *)
fallbackValueEmpty(task) == Str(Empty)
fallbackValue(task) == Str(task.value)

(***************************************************************************)
(* Lines 174-189: write one value at batch[i].key, creating intermediate   *)
(* objects.  typeof x === "object" also holds of arrays; a property set on *)
(* an array is not part of its JSON form, so the array is kept as it is.   *)
(***************************************************************************)
(* The variant for comparison makes every intermediate object anew.        *)
RECURSIVE writeAtFresh(_, _, _, _)
writeAtFresh(current, pathParts, j, value) ==
    IF j = Len(pathParts)
    THEN Put(current, pathParts[j], value)
    ELSE Put(current, pathParts[j],
             writeAtFresh(EmptyObj, pathParts, j + 1, value))

RECURSIVE writeAt(_, _, _, _)
writeAt(current, pathParts, j, value) ==
    IF current.type = "array"
    THEN current
    ELSE IF j = Len(pathParts)
    THEN Put(current, pathParts[j], value)
    ELSE LET key == pathParts[j]
             child == Get(current, key)
             next == IF child.type \notin {"object", "array"}
                     THEN EmptyObj
                     ELSE child
         IN  Put(current, key, writeAt(next, pathParts, j + 1, value))

(* The for loop of lines 174-189 over the whole batch, from item n on. *)
RECURSIVE applyBatch(_, _, _, _)
applyBatch(tree, batch, values, n) ==
    IF n > Len(batch)
    THEN tree
    ELSE applyBatch(writeAt(tree, batch[n].key, 1, values[n]),
                    batch, values, n + 1)

(***************************************************************************)
(* JSON.stringify(targetJson, null, 2) + "\n" (line 70) and JSON.parse     *)
(* (lines 41-43).  A property whose value is undefined is not emitted.     *)
(***************************************************************************)
RECURSIVE stringifyEntries(_)
JSONStringify(value) ==
    IF value.type = "object" THEN Obj(stringifyEntries(value.ent)) ELSE value
stringifyEntries(entries) ==
    IF Len(entries) = 0
    THEN <<>>
    ELSE IF Head(entries).val.type = "undefined"
    THEN stringifyEntries(Tail(entries))
    ELSE <<Entry(Head(entries).key, JSONStringify(Head(entries).val))>>
         \o stringifyEntries(Tail(entries))

FileText(value) == [json |-> JSONStringify(value), eol |-> "\n"]
JSONParse(text) == text.json

(* A file whose text is no JSON; JSON.parse (lines 26, 41) throws on it. *)
NotJson == [json |-> Undefined, eol |-> ""]
Parses(text) == text.json.type # "undefined"

(***************************************************************************)
(* What the file holds when writeFile (line 68) rejects.  fs.writeFile     *)
(* opens the file with flag "w", which empties it, and then writes the     *)
(* text: a failure before the open leaves the old text, a failure after it *)
(* leaves a part of the new text, which is no JSON as long as the closing  *)
(* brace is missing, and the whole JSON without the last character, the    *)
(* line feed, otherwise.                                                   *)
(***************************************************************************)
WriteFailureOutcomes(old, new) ==
    {old, NotJson, [json |-> new.json, eol |-> ""]}

(* Line 330 on the first entry of the source: reading a property of null   *)
(* throws a TypeError.                                                     *)
DiffRaises(source, target) == target.type = "null" /\ Len(source.ent) > 0

(* Lines 91-99; the variant for comparison always reports success. *)
ExitCodeZero(added) == 0
ExitCode(added) == IF added = 0 THEN 2 ELSE 0

(***************************************************************************)
(* The provider.  A response that arrives with an ok status carries a      *)
(* message content (line 269) of one of these forms:                       *)
(*   missing  no choices[0].message.content, so content is ""             *)
(*   garbage  not JSON, and no {...} span in it                            *)
(*   braces   not JSON, and its {...} span is not JSON either              *)
(*   json     JSON text                                                    *)
(*   wrapped  a JSON object with prose around it                           *)
(* and, for the last two, the value the text parses to: whether it is      *)
(* truthy, whether its translations property is an array, and that array.  *)
(***************************************************************************)
Elements == {Str(Ja), Str(Si), Str(Empty), Null}

Payload(truthy, isArray, list) ==
    [truthy |-> truthy, isArray |-> isArray, translations |-> list]
NoPayload == Payload(FALSE, FALSE, <<>>)

ObjectPayloads(n) ==
    {Payload(TRUE, FALSE, <<>>)}
    \cup {Payload(TRUE, TRUE, list) : list \in [1..n -> Elements]}
    \cup {Payload(TRUE, TRUE, [m \in 1..(n + 1) |-> Str(Ja)])}
    \cup {Payload(TRUE, TRUE, [m \in 1..(n - 1) |-> Str(Ja)])}

Contents(n) ==
    {[form |-> f, parsed |-> NoPayload] : f \in {"missing", "garbage", "braces"}}
    \cup {[form |-> "json", parsed |-> NoPayload]}
    \cup {[form |-> f, parsed |-> p] :
             f \in {"json", "wrapped"}, p \in ObjectPayloads(n)}

(* The ways one invocation of the retried operation (lines 252-267) fails: *)
(* fetch rejects (network error, or the abort of fetchWithTimeout),        *)
(* the status is not ok (line 262), or result.json() rejects (line 266).   *)
FailureKinds == {"fetch", "status", "body"}

Error(kind, attempt) == [kind |-> kind, attempt |-> attempt]
NoError == Error("none", 0)
Returned(list) == [status |-> "ok", list |-> list, error |-> NoError]
Threw(error) == [status |-> "threw", list |-> <<>>, error |-> error]
NoResult == [status |-> "none", list |-> <<>>, error |-> NoError]

(***************************************************************************)
(* callOpenAiTranslateBatch after withRetries has returned, lines 269-289: *)
(* parse the content and validate the payload against the inputs.          *)
(***************************************************************************)
parseContent(content, inputs, attempt) ==
    IF content.form = "braces"
    THEN Threw(Error("SyntaxError", attempt))
    ELSE LET parsed == IF content.form \in {"json", "wrapped"}
                       THEN content.parsed
                       ELSE NoPayload
         IN  IF \/ ~parsed.truthy
                \/ ~parsed.isArray
                \/ Len(parsed.translations) # Len(inputs)
             THEN Threw(Error("Invalid translations payload.", attempt))
             ELSE Returned(parsed.translations)

(* setTimeout(result, 400 * i), line 304; the flat variant does not *)
(* scale the delay with the attempt.                                *)
RetryDelayFlat(i) == BackoffBase
RetryDelay(i) == BackoffBase * i

(***************************************************************************)
(* State.  One target catalog; the tool is invoked up to MaxRuns times on  *)
(* the same directory.                                                     *)
(***************************************************************************)
VARIABLES
    run,             \* number of the current invocation of the tool
    shouldTranslate, \* line 15
    apiKey,          \* line 12: TRUE when OPENAI_API_KEY is not empty
    sourceJson,      \* line 26
    disk,            \* text of the target catalog file
    targetJson,      \* line 41
    keys,            \* line 45
    pc,              \* position of the single thread of control
    i,               \* line 113: start of the current batch
    item,            \* position of the loop of line 147 within the batch
    translatedKeys,  \* line 128
    totalApplied,    \* line 111
    translatedCount, \* line 48
    addedCount,      \* line 65
    totalAdded,      \* line 18
    totalTranslated, \* line 19
    call,            \* the callOpenAiTranslateBatch in progress
    attempt,         \* line 295: i of withRetries
    delay,           \* line 304: the timer being awaited
    callResult,      \* what the call returned or threw
    invoked,         \* history: invocations of the operation in this call
    waits,           \* history: the delays awaited in this call
    lastError,       \* history: the failure of the latest invocation
    calls,           \* history: the calls completed by translateAndApply
    fallbacks,       \* history: positions in keys filled by line 161
    writes,          \* history: writeFile calls of this run
    runs,            \* history: summary of each finished run
    pending,         \* line 38: locale files still to be processed
    catalogs,        \* history: the catalogs taken up by the loop of line 38
    exitCode,        \* lines 93, 98, 366: argument of process.exit
    batches,         \* history: the batches taken by the loop of line 113
    applied,         \* history: positions in keys written by line 187
    inflight,        \* history: calls entered and not yet left
    phase,           \* fetchWithTimeout: where the network call stands
    timer            \* line 313: TRUE while the abort timer is armed

vars == <<run, shouldTranslate, apiKey, sourceJson, disk, targetJson, keys,
          pc, i, item, translatedKeys, totalApplied, translatedCount,
          addedCount, totalAdded, totalTranslated, call, attempt, delay,
          callResult, invoked, waits, lastError, calls, fallbacks, writes,
          runs, pending, catalogs, exitCode, batches, applied, inflight,
          phase, timer>>

mainVars == <<targetJson, keys, translatedCount, addedCount, totalAdded,
              totalTranslated, writes>>
envVars == <<run, shouldTranslate, apiKey, sourceJson, disk, runs>>
batchVars == <<i, item, translatedKeys, totalApplied, calls, fallbacks>>
callVars == <<call, attempt, delay, callResult, invoked, waits, lastError,
              inflight>>
loopVars == <<pending, catalogs, exitCode>>
obsVars == <<batches, applied>>
netVars == <<phase, timer>>

NoCall == [mode |-> "none", keys |-> <<>>]

(* The current batch and its translatable part (lines 116, 129). *)
batch == batchOf(keys, i)
toTranslate == toTranslateOf(batch)
Texts(tasks) == [n \in 1..Len(tasks) |-> tasks[n].value]

(* State of a process that has just been started. *)
Fresh ==
    /\ targetJson = Undefined
    /\ keys = <<>>
    /\ pc = "start"
    /\ i = 0
    /\ item = 0
    /\ translatedKeys = <<>>
    /\ totalApplied = 0
    /\ translatedCount = 0
    /\ addedCount = 0
    /\ totalAdded = 0
    /\ totalTranslated = 0
    /\ call = NoCall
    /\ attempt = 0
    /\ delay = 0
    /\ callResult = NoResult
    /\ invoked = 0
    /\ waits = <<>>
    /\ lastError = NoError
    /\ calls = <<>>
    /\ fallbacks = {}
    /\ writes = 0
    /\ batches = <<>>
    /\ applied = <<>>
    /\ inflight = 0
    /\ phase = "idle"
    /\ timer = FALSE

(***************************************************************************)
(* Catalogs the runs start from.  Objects list their keys in insertion     *)
(* order; a source lists "a" and "c" in either order.                      *)
(* A nested target may hold a key "c" the source does not have.            *)
(***************************************************************************)
OneKey(k, values) == {<<Entry(k, v)>> : v \in values}
TwoKeys(k1, values1, k2, values2) ==
    {<<Entry(k1, v1), Entry(k2, v2)>> : v1 \in values1, v2 \in values2}
Objects(entrySets) == {Obj(e) : e \in entrySets}

SourceLeaves == {Str(Hi), Str(Empty), Str(Blank)}
SourceNested == Objects({<<>>} \cup OneKey("b", SourceLeaves))
SourceA == SourceLeaves \cup SourceNested
SourceC == SourceLeaves
Sources ==
    Objects({<<>>} \cup OneKey("a", SourceA) \cup OneKey("c", SourceC)
            \cup TwoKeys("a", SourceA, "c", SourceC)
            \cup TwoKeys("c", SourceC, "a", SourceA))

TargetLeaves == {Str(Yo), Str(Empty)}
TargetNested ==
    Objects({<<>>} \cup OneKey("b", TargetLeaves)
            \cup TwoKeys("b", {Str(Empty)}, "c", {Str(Yo)}))
TargetA == TargetLeaves \cup TargetNested
TargetC == TargetLeaves
Targets ==
    Objects({<<>>} \cup OneKey("a", TargetA) \cup OneKey("c", TargetC)
            \cup TwoKeys("a", TargetA, "c", TargetC))

Init ==
    /\ run = 1
    /\ shouldTranslate \in BOOLEAN
    /\ apiKey \in BOOLEAN
    /\ sourceJson \in Sources
    /\ disk \in {FileText(t) : t \in Targets}
    /\ runs = <<>>
    /\ pending = <<>>
    /\ catalogs = <<>>
    /\ exitCode = 0
    /\ Fresh

(***************************************************************************)
(* main, lines 40-46: read and parse the catalog, then diff it.            *)
(***************************************************************************)
MainDiff ==
    /\ pc = "start"
    /\ Parses(disk)
    /\ ~DiffRaises(sourceJson, JSONParse(disk))
    /\ LET parsed == JSONParse(disk)
           diff == addMissingKeys(sourceJson, parsed, <<>>, <<>>)
       IN  /\ targetJson' = diff.target
           /\ keys' = diff.keys
    /\ pc' = "diffed"
    /\ UNCHANGED <<translatedCount, addedCount, totalAdded, totalTranslated,
                   writes>>
    /\ UNCHANGED <<envVars, loopVars, netVars, batchVars, callVars>>
    /\ UNCHANGED obsVars

(* Line 50 false: translation not requested, or nothing to translate. *)
SkipTranslation ==
    /\ pc = "diffed"
    /\ ~(shouldTranslate /\ Len(keys) > 0)
    /\ pc' = "persist"
    /\ UNCHANGED <<mainVars, envVars, loopVars, netVars, batchVars, callVars>>
    /\ UNCHANGED obsVars

(* Lines 51-54: no API key, warn and go on without translating. *)
MissingApiKey ==
    /\ pc = "diffed"
    /\ shouldTranslate /\ Len(keys) > 0
    /\ ~apiKey
    /\ pc' = "persist"
    /\ UNCHANGED <<mainVars, envVars, loopVars, netVars, batchVars, callVars>>
    /\ UNCHANGED obsVars

(* Lines 56-61 and 108-111: enter translateAndApply. *)
CallTranslateAndApply ==
    /\ pc = "diffed"
    /\ shouldTranslate /\ Len(keys) > 0
    /\ apiKey
    /\ totalApplied' = 0
    /\ i' = 0
    /\ pc' = "batch"
    /\ UNCHANGED <<item, translatedKeys, calls, fallbacks>>
    /\ UNCHANGED <<mainVars, envVars, loopVars, netVars, callVars>>
    /\ UNCHANGED obsVars

(* Entry of callOpenAiTranslateBatch and of withRetries (lines 218-252, *)
(* 293-295).                                                            *)
BeginCall(mode, inputs) ==
    /\ call' = [mode |-> mode, keys |-> inputs]
    /\ attempt' = 1
    /\ delay' = 0
    /\ callResult' = NoResult
    /\ invoked' = 0
    /\ waits' = <<>>
    /\ lastError' = NoError
    /\ inflight' = inflight + 1

(***************************************************************************)
(* translateAndApply, lines 113-137 and 168-172: take the next batch; with *)
(* nothing translatable every item resolves to "", otherwise start the     *)
(* bulk call.                                                              *)
(***************************************************************************)
StartBatch ==
    /\ pc = "batch"
    /\ i < Len(keys)
    /\ item' = 0
    /\ IF Len(toTranslate) > 0
       THEN /\ translatedKeys' = <<>>
            /\ BeginCall("bulk", Texts(toTranslate))
            /\ pc' = "fetch"
       ELSE /\ translatedKeys' = [n \in 1..Len(batch) |-> Str(Empty)]
            /\ pc' = "apply"
            /\ UNCHANGED callVars
    /\ UNCHANGED <<i, totalApplied, calls, fallbacks>>
    /\ UNCHANGED <<mainVars, envVars, loopVars, netVars>>
    /\ batches' = Append(batches, batch)
    /\ UNCHANGED applied

(* The caller has taken the call's outcome; its frame is gone. *)
EndCall ==
    /\ call' = NoCall
    /\ attempt' = 0
    /\ delay' = 0
    /\ callResult' = NoResult
    /\ invoked' = 0
    /\ waits' = <<>>
    /\ lastError' = NoError
    /\ inflight' = inflight - 1

(* A call completes: callOpenAiTranslateBatch returns or throws. *)
CompleteCall(result) ==
    /\ callResult' = result
    /\ calls' = Append(calls, [batch |-> i, mode |-> call.mode,
                              inputs |-> call.keys,
                              status |-> result.status,
                              list |-> result.list])
    /\ pc' = "callDone"

(***************************************************************************)
(* One invocation of the retried operation fails (lines 253-265, 311-320). *)
(* withRetries, lines 299-304: rethrow on the last attempt, otherwise      *)
(* start the backoff timer.                                                *)
(***************************************************************************)
AttemptFails(kind) ==
    /\ LET error == Error(kind, attempt)
       IN  /\ invoked' = invoked + 1
           /\ lastError' = error
           /\ IF attempt = attempts
              THEN /\ CompleteCall(Threw(error))
                   /\ UNCHANGED <<delay, waits>>
              ELSE /\ delay' = RetryDelay(attempt)
                   /\ waits' = Append(waits, RetryDelay(attempt))
                   /\ pc' = "backoff"
                   /\ UNCHANGED <<callResult, calls>>
    /\ UNCHANGED <<call, attempt, inflight>>
    /\ UNCHANGED <<i, item, translatedKeys, totalApplied, fallbacks>>
    /\ UNCHANGED <<mainVars, envVars, loopVars>>
    /\ UNCHANGED obsVars

OperationFails ==
    /\ pc = "fetch"
    /\ \E kind \in FailureKinds : AttemptFails(kind)
    /\ UNCHANGED netVars

(* The timer of line 304 fires: next iteration of the loop of line 295. *)
BackoffElapsed ==
    /\ pc = "backoff"
    /\ attempt' = attempt + 1
    /\ delay' = 0
    /\ pc' = "fetch"
    /\ UNCHANGED <<call, callResult, invoked, waits, lastError, inflight>>
    /\ UNCHANGED <<mainVars, envVars, loopVars, netVars, batchVars>>
    /\ UNCHANGED obsVars

(***************************************************************************)
(* One invocation of the operation succeeds (lines 253-266), withRetries   *)
(* returns its result (line 298) and callOpenAiTranslateBatch parses and   *)
(* validates the content (lines 269-289).                                  *)
(***************************************************************************)
AttemptReturns(contents) ==
    /\ invoked' = invoked + 1
    /\ \E content \in contents :
        CompleteCall(parseContent(content, call.keys, attempt))
    /\ UNCHANGED <<call, attempt, delay, waits, lastError, inflight>>
    /\ UNCHANGED <<i, item, translatedKeys, totalApplied, fallbacks>>
    /\ UNCHANGED <<mainVars, envVars, loopVars>>
    /\ UNCHANGED obsVars

OperationReturnsOneOf(contents) ==
    /\ pc = "fetch"
    /\ AttemptReturns(contents)
    /\ UNCHANGED netVars

OperationReturns == OperationReturnsOneOf(Contents(Len(call.keys)))

(* Lines 139-145: the bulk call returned; zip its list onto the batch. *)
BulkReturned ==
    /\ pc = "callDone"
    /\ call.mode = "bulk"
    /\ callResult.status = "ok"
    /\ translatedKeys' = zipBulk(batch, callResult.list, 1, 0)
    /\ pc' = "apply"
    /\ UNCHANGED <<i, item, totalApplied, calls, fallbacks>>
    /\ EndCall
    /\ UNCHANGED <<mainVars, envVars, loopVars, netVars>>
    /\ UNCHANGED obsVars

(* Line 146: the bulk call threw; enter the loop of line 147. *)
BulkThrew ==
    /\ pc = "callDone"
    /\ call.mode = "bulk"
    /\ callResult.status = "threw"
    /\ item' = 1
    /\ pc' = "items"
    /\ UNCHANGED <<i, translatedKeys, totalApplied, calls, fallbacks>>
    /\ EndCall
    /\ UNCHANGED <<mainVars, envVars, loopVars, netVars>>
    /\ UNCHANGED obsVars

(***************************************************************************)
(* Lines 147-157: the next item of the batch; a blank text resolves to "", *)
(* any other text starts a call of its own.  Past the last item the loop   *)
(* ends.                                                                   *)
(***************************************************************************)
ItemStep ==
    /\ pc = "items"
    /\ IF item > Len(batch)
       THEN /\ pc' = "apply"
            /\ UNCHANGED <<item, translatedKeys, callVars>>
       ELSE IF ~IsTranslatableText(batch[item].value)
       THEN /\ translatedKeys' = Append(translatedKeys, Str(Empty))
            /\ item' = item + 1
            /\ pc' = "items"
            /\ UNCHANGED callVars
       ELSE /\ BeginCall("item", <<batch[item].value>>)
            /\ pc' = "fetch"
            /\ UNCHANGED <<item, translatedKeys>>
    /\ UNCHANGED <<i, totalApplied, calls, fallbacks>>
    /\ UNCHANGED <<mainVars, envVars, loopVars, netVars>>
    /\ UNCHANGED obsVars

(* Line 159: the item's call returned; take its single element. *)
ItemReturned ==
    /\ pc = "callDone"
    /\ call.mode = "item"
    /\ callResult.status = "ok"
    /\ translatedKeys' = Append(translatedKeys, takeSingle(callResult.list))
    /\ item' = item + 1
    /\ pc' = "items"
    /\ UNCHANGED <<i, totalApplied, calls, fallbacks>>
    /\ EndCall
    /\ UNCHANGED <<mainVars, envVars, loopVars, netVars>>
    /\ UNCHANGED obsVars

(* Lines 160-165: the item's call threw; fall back to the source text. *)
ItemThrew ==
    /\ pc = "callDone"
    /\ call.mode = "item"
    /\ callResult.status = "threw"
    /\ translatedKeys' = Append(translatedKeys, fallbackValue(batch[item]))
    /\ fallbacks' = fallbacks \cup {i + item}
    /\ item' = item + 1
    /\ pc' = "items"
    /\ UNCHANGED <<i, totalApplied, calls>>
    /\ EndCall
    /\ UNCHANGED <<mainVars, envVars, loopVars, netVars>>
    /\ UNCHANGED obsVars

(***************************************************************************)
(* Lines 174-190: write the batch's values into the tree and count them;   *)
(* then the next batch, or return totalApplied to main (lines 192, 56).    *)
(***************************************************************************)
ApplyBatch ==
    /\ pc = "apply"
    /\ targetJson' = applyBatch(targetJson, batch, translatedKeys, 1)
    /\ totalApplied' = totalApplied + Len(batch)
    /\ i' = i + BATCH_SIZE
    /\ IF i + BATCH_SIZE < Len(keys)
       THEN /\ pc' = "batch"
            /\ UNCHANGED translatedCount
       ELSE /\ pc' = "persist"
            /\ translatedCount' = totalApplied + Len(batch)
    /\ UNCHANGED <<keys, addedCount, totalAdded, totalTranslated, writes>>
    /\ UNCHANGED <<item, translatedKeys, calls, fallbacks>>
    /\ UNCHANGED <<envVars, loopVars, netVars, callVars>>
    /\ applied' = applied \o [n \in 1..Len(batch) |-> i + n]
    /\ UNCHANGED batches

(* Summary of a run, kept for comparing successive runs. *)
Summary(added, translated, written, file) ==
    [added |-> added, translated |-> translated, writes |-> written,
     keys |-> keys, before |-> disk, file |-> file]

(* The condition of line 67; the variant looks at translations only. *)
ShouldPersistTranslated(added, translated) == translated > 0
ShouldPersist(added, translated) == added > 0 \/ translated > 0

(* Lines 65-75, 80-81: something changed, write the catalog. *)
WriteCatalog ==
    /\ pc = "persist"
    /\ ShouldPersist(Len(keys), translatedCount)
    /\ addedCount' = Len(keys)
    /\ disk' = FileText(targetJson)
    /\ writes' = writes + 1
    /\ totalAdded' = totalAdded + Len(keys)
    /\ totalTranslated' = totalTranslated + translatedCount
    /\ runs' = Append(runs, Summary(Len(keys), translatedCount, writes + 1,
                                    FileText(targetJson)))
    /\ pc' = "done"
    /\ UNCHANGED <<targetJson, keys, translatedCount>>
    /\ UNCHANGED <<run, shouldTranslate, apiKey, sourceJson>>
    /\ UNCHANGED <<batchVars, callVars>>
    /\ UNCHANGED <<loopVars, netVars, obsVars>>

(* Lines 65-67, 76-81: nothing to write. *)
NoChanges ==
    /\ pc = "persist"
    /\ ~ShouldPersist(Len(keys), translatedCount)
    /\ addedCount' = Len(keys)
    /\ totalAdded' = totalAdded + Len(keys)
    /\ totalTranslated' = totalTranslated + translatedCount
    /\ runs' = Append(runs, Summary(Len(keys), translatedCount, writes, disk))
    /\ pc' = "done"
    /\ UNCHANGED <<targetJson, keys, translatedCount, writes>>
    /\ UNCHANGED <<run, shouldTranslate, apiKey, sourceJson, disk>>
    /\ UNCHANGED <<batchVars, callVars>>
    /\ UNCHANGED <<loopVars, netVars, obsVars>>

(***************************************************************************)
(* The tool is started again on the same directory, without --translate    *)
(* (line 15); the source catalog and the file on disk are what the         *)
(* previous run left.                                                      *)
(***************************************************************************)
Rerun ==
    /\ pc = "done"
    /\ run < MaxRuns
    /\ run' = run + 1
    /\ shouldTranslate' = FALSE
    /\ targetJson' = Undefined
    /\ keys' = <<>>
    /\ pc' = "start"
    /\ i' = 0
    /\ item' = 0
    /\ translatedKeys' = <<>>
    /\ totalApplied' = 0
    /\ translatedCount' = 0
    /\ addedCount' = 0
    /\ totalAdded' = 0
    /\ totalTranslated' = 0
    /\ call' = NoCall
    /\ attempt' = 0
    /\ delay' = 0
    /\ callResult' = NoResult
    /\ invoked' = 0
    /\ waits' = <<>>
    /\ lastError' = NoError
    /\ calls' = <<>>
    /\ fallbacks' = {}
    /\ writes' = 0
    /\ batches' = <<>>
    /\ applied' = <<>>
    /\ inflight' = 0
    /\ phase' = "idle"
    /\ timer' = FALSE
    /\ UNCHANGED loopVars
    /\ UNCHANGED <<apiKey, sourceJson, disk, runs>>

Next ==
    \/ MainDiff
    \/ SkipTranslation
    \/ MissingApiKey
    \/ CallTranslateAndApply
    \/ StartBatch
    \/ OperationFails
    \/ BackoffElapsed
    \/ OperationReturns
    \/ BulkReturned
    \/ BulkThrew
    \/ ItemStep
    \/ ItemReturned
    \/ ItemThrew
    \/ ApplyBatch
    \/ WriteCatalog
    \/ NoChanges
    \/ Rerun

Spec == Init /\ [][Next]_vars

(***************************************************************************)
(* The diff on its own: main up to line 46, over catalogs that also hold   *)
(* numbers, booleans, null and arrays on either side.                      *)
(***************************************************************************)
DiffSourceLeaves == {Str(Hi), Str(Empty), Num, Bool, Null, Arr}
DiffSourceValues ==
    DiffSourceLeaves
    \cup Objects({<<>>} \cup OneKey("b", DiffSourceLeaves))
DiffSources ==
    Objects({<<>>} \cup OneKey("a", DiffSourceValues)
            \cup TwoKeys("a", DiffSourceValues, "c", DiffSourceValues)
            \cup TwoKeys("c", DiffSourceValues, "a", DiffSourceValues))

DiffTargetLeaves == {Str(Yo), Str(Empty), Num, Null, Arr}
DiffTargetValues ==
    DiffTargetLeaves
    \cup Objects({<<>>} \cup OneKey("b", DiffTargetLeaves))
DiffTargets ==
    Objects({<<>>} \cup OneKey("a", DiffTargetValues)
            \cup OneKey("c", DiffTargetValues)
            \cup TwoKeys("a", DiffTargetValues, "c", DiffTargetValues))

InitDiff ==
    /\ run = 1
    /\ shouldTranslate = FALSE
    /\ apiKey = FALSE
    /\ sourceJson \in DiffSources
    /\ disk \in {FileText(t) : t \in DiffTargets}
    /\ runs = <<>>
    /\ pending = <<>>
    /\ catalogs = <<>>
    /\ exitCode = 0
    /\ Fresh

NextDiff == MainDiff

SpecDiff == InitDiff /\ [][NextDiff]_vars

(***************************************************************************)
(* translateAndApply over long task lists: a flat source of up to MaxTasks *)
(* keys "1", "2", ... against an empty target.  The text of key k is "k",  *)
(* or a blank at every every-th key.  The provider is either down or       *)
(* answers a bulk call with a list of the right length.                    *)
(***************************************************************************)
PlanText(k, every) ==
    IF every > 0 /\ k % every = 0 THEN Str(Blank) ELSE Str(<<ToString(k)>>)
PlanSource(n, every) ==
    Obj([k \in 1..n |-> Entry(ToString(k), PlanText(k, every))])
PlanSources == {PlanSource(n, every) : n \in 0..MaxTasks, every \in {0, 1, 3}}

InitPlan ==
    /\ run = 1
    /\ shouldTranslate = TRUE
    /\ apiKey = TRUE
    /\ sourceJson \in PlanSources
    /\ disk = FileText(EmptyObj)
    /\ runs = <<>>
    /\ pending = <<>>
    /\ catalogs = <<>>
    /\ exitCode = 0
    /\ Fresh

BulkAnswer(n) ==
    [form |-> "json", parsed |-> Payload(TRUE, TRUE, [m \in 1..n |-> Str(Ja)])]

BulkAnswered ==
    /\ call.mode = "bulk"
    /\ OperationReturnsOneOf({BulkAnswer(Len(call.keys))})

NextPlan ==
    \/ MainDiff
    \/ SkipTranslation
    \/ CallTranslateAndApply
    \/ StartBatch
    \/ OperationFails
    \/ BackoffElapsed
    \/ BulkAnswered
    \/ BulkReturned
    \/ BulkThrew
    \/ ItemStep
    \/ ItemThrew
    \/ ApplyBatch
    \/ WriteCatalog
    \/ NoChanges

SpecPlan == InitPlan /\ [][NextPlan]_vars

(***************************************************************************)
(* main over several target catalogs (lines 17-100): pending holds the     *)
(* files of the locales not yet taken up, disk the file of the current     *)
(* one.  A catalog file may hold null or no JSON at all, reading and       *)
(* writing a file may fail.  The provider is either down or answers a bulk *)
(* call with a list of the right length.                                   *)
(***************************************************************************)
MaxCatalogs == 2

RunSources ==
    {EmptyObj,
     Obj(<<Entry("c", Str(Hi))>>),
     Obj(<<Entry("a", Obj(<<Entry("b", Str(Hi))>>)), Entry("c", Str(Blank))>>)}
RunFiles ==
    {FileText(EmptyObj), FileText(Obj(<<Entry("c", Str(Yo))>>)),
     FileText(Null), NotJson}
RunDirectories ==
    UNION {[1..n -> RunFiles] : n \in 0..MaxCatalogs}

InitRun ==
    /\ run = 1
    /\ shouldTranslate \in BOOLEAN
    /\ apiKey = TRUE
    /\ sourceJson \in RunSources
    /\ disk = NotJson
    /\ runs = <<>>
    /\ pending \in RunDirectories
    /\ catalogs = <<>>
    /\ exitCode = 0
    /\ targetJson = Undefined
    /\ keys = <<>>
    /\ pc = "main"
    /\ i = 0
    /\ item = 0
    /\ translatedKeys = <<>>
    /\ totalApplied = 0
    /\ translatedCount = 0
    /\ addedCount = 0
    /\ totalAdded = 0
    /\ totalTranslated = 0
    /\ call = NoCall
    /\ attempt = 0
    /\ delay = 0
    /\ callResult = NoResult
    /\ invoked = 0
    /\ waits = <<>>
    /\ lastError = NoError
    /\ calls = <<>>
    /\ fallbacks = {}
    /\ writes = 0
    /\ batches = <<>>
    /\ applied = <<>>
    /\ inflight = 0
    /\ phase = "idle"
    /\ timer = FALSE

(* Lines 21-36: the directory is found, the source catalog read and     *)
(* parsed, the locale files listed.                                     *)
MainStarts ==
    /\ pc = "main"
    /\ pc' = "next"
    /\ UNCHANGED <<mainVars, envVars, loopVars, netVars, batchVars, callVars>>
    /\ UNCHANGED obsVars

(* Lines 21-28 throw (no i18n directory, source catalog unreadable or   *)
(* no JSON) or readdir of line 30 rejects: main rejects and the handler *)
(* of lines 364-367 exits.                                              *)
MainFails ==
    /\ pc = "main"
    /\ exitCode' = 1
    /\ pc' = "exited"
    /\ UNCHANGED <<pending, catalogs>>
    /\ UNCHANGED <<mainVars, envVars, netVars, batchVars, callVars>>
    /\ UNCHANGED obsVars

(* An entry of the log of catalogs. *)
Catalog(before, after, status, step, added) ==
    [before |-> before, after |-> after, status |-> status, step |-> step,
     added |-> added]

(* The current catalog is over: fill in its entry. *)
Close(status, step, file) ==
    catalogs' = [catalogs EXCEPT ![Len(catalogs)] =
                    Catalog(@.before, file, status, step, Len(keys))]

(* Lines 38-39: the next locale file; the variables declared inside the *)
(* loop body and inside translateAndApply start anew.                   *)
TakeCatalog ==
    /\ pc = "next"
    /\ pending # <<>>
    /\ disk' = Head(pending)
    /\ pending' = Tail(pending)
    /\ catalogs' = Append(catalogs,
                          Catalog(Head(pending), Head(pending), "taken", "read",
                                  0))
    /\ targetJson' = Undefined
    /\ keys' = <<>>
    /\ pc' = "start"
    /\ i' = 0
    /\ item' = 0
    /\ translatedKeys' = <<>>
    /\ totalApplied' = 0
    /\ translatedCount' = 0
    /\ addedCount' = 0
    /\ writes' = 0
    /\ calls' = <<>>
    /\ fallbacks' = {}
    /\ batches' = <<>>
    /\ applied' = <<>>
    /\ UNCHANGED <<run, shouldTranslate, apiKey, sourceJson, runs, exitCode>>
    /\ UNCHANGED <<totalAdded, totalTranslated>>
    /\ UNCHANGED <<callVars, netVars>>

(* Lines 41-43 throw: readFile rejects, or the text is no JSON; the     *)
(* catch of lines 83-89 goes on to the next file.                       *)
LoadFails ==
    /\ pc = "start"
    /\ \E step \in {"read", "parse"} :
          /\ step = "parse" => ~Parses(disk)
          /\ Close("skipped", step, disk)
    /\ pc' = "next"
    /\ UNCHANGED <<pending, exitCode>>
    /\ UNCHANGED <<mainVars, envVars, netVars, batchVars, callVars>>
    /\ UNCHANGED obsVars

(* Line 46 throws on a catalog that is null. *)
DiffFails ==
    /\ pc = "start"
    /\ Parses(disk)
    /\ DiffRaises(sourceJson, JSONParse(disk))
    /\ Close("skipped", "diff", disk)
    /\ pc' = "next"
    /\ UNCHANGED <<pending, exitCode>>
    /\ UNCHANGED <<mainVars, envVars, netVars, batchVars, callVars>>
    /\ UNCHANGED obsVars

(* Lines 65-72 and 83-89: writeFile rejects; lines 80-81 are not        *)
(* reached.                                                             *)
WriteFails ==
    /\ pc = "persist"
    /\ ShouldPersist(Len(keys), translatedCount)
    /\ addedCount' = Len(keys)
    /\ \E left \in WriteFailureOutcomes(disk, FileText(targetJson)) :
          /\ disk' = left
          /\ Close("skipped", "write", left)
    /\ pc' = "next"
    /\ UNCHANGED <<targetJson, keys, translatedCount, totalAdded,
                   totalTranslated, writes>>
    /\ UNCHANGED <<run, shouldTranslate, apiKey, sourceJson, runs>>
    /\ UNCHANGED <<pending, exitCode>>
    /\ UNCHANGED <<netVars, batchVars, callVars>>
    /\ UNCHANGED obsVars

(* Lines 80-82: the loop body ends normally. *)
CatalogDone ==
    /\ pc = "done"
    /\ Close("ok", "end", disk)
    /\ pc' = "next"
    /\ UNCHANGED <<pending, exitCode>>
    /\ UNCHANGED <<mainVars, envVars, netVars, batchVars, callVars>>
    /\ UNCHANGED obsVars

(* Lines 91-99: the loop is over. *)
Exit ==
    /\ pc = "next"
    /\ pending = <<>>
    /\ exitCode' = ExitCode(totalAdded)
    /\ pc' = "exited"
    /\ UNCHANGED <<pending, catalogs>>
    /\ UNCHANGED <<mainVars, envVars, netVars, batchVars, callVars>>
    /\ UNCHANGED obsVars

NextRun ==
    \/ MainStarts
    \/ MainFails
    \/ TakeCatalog
    \/ LoadFails
    \/ DiffFails
    \/ MainDiff
    \/ SkipTranslation
    \/ CallTranslateAndApply
    \/ StartBatch
    \/ OperationFails
    \/ BackoffElapsed
    \/ BulkAnswered
    \/ BulkReturned
    \/ BulkThrew
    \/ ItemStep
    \/ ItemThrew
    \/ ApplyBatch
    \/ WriteCatalog
    \/ WriteFails
    \/ NoChanges
    \/ CatalogDone
    \/ Exit

SpecRun == InitRun /\ [][NextRun]_vars

(***************************************************************************)
(* One invocation of the retried operation in its steps (lines 252-267 and *)
(* 311-320).  phase is where the network call stands:                      *)
(*   idle       no request is under way                                    *)
(*   fetching   fetch has been called and has not settled (line 315)       *)
(*   body       fetch resolved with an ok status, result.json() is reading *)
(*              the body (line 266)                                        *)
(*   errorBody  fetch resolved with another status, result.text() is       *)
(*              reading the body (line 263)                                *)
(* fetch resolves when the response's headers have arrived; the finally of *)
(* line 317 then clears the timer.  The provider may stop answering in any *)
(* phase: no action of it is ever bound to happen.                         *)
(***************************************************************************)
NetSources ==
    {Obj(<<Entry("c", Str(Hi))>>),
     Obj(<<Entry("a", Obj(<<Entry("b", Str(Hi))>>)), Entry("c", Str(Hi))>>)}

InitNet ==
    /\ run = 1
    /\ shouldTranslate = TRUE
    /\ apiKey = TRUE
    /\ sourceJson \in NetSources
    /\ disk = FileText(EmptyObj)
    /\ runs = <<>>
    /\ pending = <<>>
    /\ catalogs = <<>>
    /\ exitCode = 0
    /\ Fresh

(* Lines 312-315: arm the timer, call fetch. *)
FetchStarts ==
    /\ pc = "fetch"
    /\ phase = "idle"
    /\ phase' = "fetching"
    /\ timer' = TRUE
    /\ UNCHANGED pc
    /\ UNCHANGED <<mainVars, envVars, loopVars, batchVars, callVars>>
    /\ UNCHANGED obsVars

(* fetch rejects with a network error; lines 317-318 clear the timer. *)
FetchRejects ==
    /\ pc = "fetch"
    /\ phase = "fetching"
    /\ phase' = "idle"
    /\ timer' = FALSE
    /\ AttemptFails("fetch")

(* Line 313: the timer fires and aborts the fetch, which rejects. *)
TimerFires ==
    /\ pc = "fetch"
    /\ phase = "fetching"
    /\ timer
    /\ phase' = "idle"
    /\ timer' = FALSE
    /\ AttemptFails("timeout")

(* Lines 315-318: the headers arrive, fetch resolves, the timer is    *)
(* cleared; line 261 looks at the status.                             *)
HeadersArrive ==
    /\ pc = "fetch"
    /\ phase = "fetching"
    /\ \E ok \in BOOLEAN : phase' = IF ok THEN "body" ELSE "errorBody"
    /\ timer' = FALSE
    /\ UNCHANGED pc
    /\ UNCHANGED <<mainVars, envVars, loopVars, batchVars, callVars>>
    /\ UNCHANGED obsVars

(* Line 266: the body has arrived and is JSON. *)
BodyArrives ==
    /\ pc = "fetch"
    /\ phase = "body"
    /\ phase' = "idle"
    /\ AttemptReturns(Contents(Len(call.keys)))
    /\ UNCHANGED timer

(* Line 266: result.json() rejects, the connection broke or the body  *)
(* is no JSON.                                                        *)
BodyFails ==
    /\ pc = "fetch"
    /\ phase = "body"
    /\ phase' = "idle"
    /\ AttemptFails("body")
    /\ UNCHANGED timer

(* Lines 262-264: result.text() settles either way, the error is      *)
(* thrown.                                                            *)
ErrorBodyArrives ==
    /\ pc = "fetch"
    /\ phase = "errorBody"
    /\ phase' = "idle"
    /\ AttemptFails("status")
    /\ UNCHANGED timer

NextNet ==
    \/ MainDiff
    \/ CallTranslateAndApply
    \/ StartBatch
    \/ FetchStarts
    \/ FetchRejects
    \/ TimerFires
    \/ HeadersArrive
    \/ BodyArrives
    \/ BodyFails
    \/ ErrorBodyArrives
    \/ BackoffElapsed
    \/ BulkReturned
    \/ BulkThrew
    \/ ItemStep
    \/ ItemReturned
    \/ ItemThrew
    \/ ApplyBatch
    \/ WriteCatalog

SpecNet == InitNet /\ [][NextNet]_vars

(***************************************************************************)
(* Vocabulary of the properties.                                           *)
(***************************************************************************)
AllKeys == {"a", "b", "c"}
Paths == {<<k>> : k \in AllKeys} \cup {<<k1, k2>> : k1 \in AllKeys, k2 \in AllKeys}

(* The value a path addresses, walking through objects only. *)
RECURSIVE Lookup(_, _)
Lookup(tree, path) ==
    IF Len(path) = 0
    THEN tree
    ELSE Lookup(Get(tree, Head(path)), Tail(path))

TaskPaths == {keys[n].key : n \in 1..Len(keys)}
TargetBefore == JSONParse(disk)

(* Absent, not a string, or the empty string. *)
MissingValue(v) == v.type = "undefined" \/ v.type # "string" \/ v.str = Empty

(* C1: after the diff a path is a task iff the source holds a string there
   and the target held nothing, a non-string or "" there; a source number,
   boolean, null or array makes no task and leaves the target's value at
   that path as it was. *)
C1_DiffCorrectness ==
    pc = "diffed" =>
        \A p \in Paths :
            /\ p \in TaskPaths <=>
                  /\ Lookup(sourceJson, p).type = "string"
                  /\ MissingValue(Lookup(TargetBefore, p))
            /\ Lookup(sourceJson, p).type
                    \in {"number", "boolean", "null", "array"}
               => /\ p \notin TaskPaths
                  /\ Lookup(targetJson, p) = Lookup(TargetBefore, p)

(* A diff that made a task of a non-string target value, kept a translated
   leaf, and passed over a source number whose target holds text. *)
C1_Witness ==
    /\ pc = "diffed"
    /\ \E p \in TaskPaths : Lookup(TargetBefore, p).type = "number"
    /\ \E p \in Paths :
          /\ Lookup(sourceJson, p).type = "number"
          /\ Lookup(TargetBefore, p).type = "string"
          /\ Lookup(targetJson, p).type = "string"

(***************************************************************************)
(* Tasks, batches and calls, as the properties speak of them.              *)
(***************************************************************************)
Tasks == 1..Len(keys)
ValueAt(n) == Lookup(targetJson, keys[n].key)
Translatable(n) == IsTranslatableText(keys[n].value)
BatchStart(n) == BATCH_SIZE * ((n - 1) \div BATCH_SIZE)

(* Position of task n among the translatable tasks of its batch. *)
Rank(n) == Cardinality({m \in (BatchStart(n) + 1)..n : Translatable(m)})

CallsOf(b, mode) == SelectSeq(calls, LAMBDA c : c.batch = b /\ c.mode = mode)
BulkOf(n) == CallsOf(BatchStart(n), "bulk")
ItemsOf(n) == CallsOf(BatchStart(n), "item")
BulkFailed(n) == Len(BulkOf(n)) = 1 /\ BulkOf(n)[1].status = "threw"
BulkSucceeded(n) == Len(BulkOf(n)) = 1 /\ BulkOf(n)[1].status = "ok"
ItemFailed(n) == Len(ItemsOf(n)) >= Rank(n) /\ ItemsOf(n)[Rank(n)].status = "threw"

(* translateAndApply has returned to main. *)
Reconciled == pc \in {"persist", "done"} /\ calls # <<>>

(* The first-run tasks a finished first run left without text. *)
LeftEmpty(r) ==
    {n \in 1..Len(r.keys) : MissingValue(Lookup(JSONParse(r.file), r.keys[n].key))}

(* C2 as stated: a second run, without translation, adds nothing. *)
C2_SecondRunAddsNothing ==
    (run = 2 /\ pc = "done") => addedCount = 0

(* C2 as amended: a second run, without translation, adds exactly the
   first run's tasks whose leaf the first run left absent, not a string or
   empty, and nothing else. *)
C2_SecondRunAddsLeftEmpty ==
    (run = 2 /\ pc = "done") =>
        /\ addedCount = Cardinality(LeftEmpty(runs[1]))
        /\ TaskPaths = {runs[1].keys[n].key : n \in LeftEmpty(runs[1])}

(* A first run that translated two leaves, one of which a second run adds
   again. *)
C2_Witness ==
    /\ run = 2
    /\ pc = "done"
    /\ runs[1].translated = 2
    /\ addedCount = 1

(* C3: a task filled by the source-text fallback counts in addedCount and
   not in translatedCount. *)
C3_FallbackNotTranslated ==
    (pc = "done" /\ fallbacks # {}) =>
        /\ addedCount = Len(keys)
        /\ translatedCount + Cardinality(fallbacks) <= addedCount

(* C4: a translatable task whose batch's bulk call failed and whose own
   call failed holds its source text. *)
C4_FallbackFloor ==
    Reconciled =>
        \A n \in Tasks :
            (Translatable(n) /\ BulkFailed(n) /\ ItemFailed(n))
                => ValueAt(n) = Str(keys[n].value)

(* Two tasks, the second of which fell back to its source text. *)
C4_Witness ==
    /\ Reconciled
    /\ Len(keys) = 2
    /\ Translatable(2) /\ BulkFailed(2) /\ ItemFailed(2)
    /\ ValueAt(2) = Str(Hi)
    /\ ValueAt(1) = Str(Ja)

(* C5: a call fails only after the operation was attempted 3 times, also
   when the failure is a malformed or wrong-length payload. *)
C5_PayloadFailureRetried ==
    (pc = "callDone" /\ callResult.status = "threw") => invoked = 3

(* C6: every outcome of a call is taken up inside translateAndApply, every
   item of a batch is resolved before the batch is written, and when
   translateAndApply has returned every task path holds a value. *)
C6_NeverRaisesAllResolved ==
    /\ pc = "callDone" =>
          ENABLED (BulkReturned \/ BulkThrew \/ ItemReturned \/ ItemThrew)
    /\ pc = "apply" =>
          /\ Len(translatedKeys) = Len(batch)
          /\ \A n \in 1..Len(batch) : translatedKeys[n].type # "undefined"
    /\ Reconciled =>
          /\ translatedCount = Len(keys)
          /\ \A n \in Tasks : ValueAt(n).type # "undefined"

(* A run in which every call failed in some way, yet both tasks are
   resolved. *)
C6_Witness ==
    /\ Reconciled
    /\ Len(keys) = 2
    /\ Len(calls) = 3
    /\ \A k \in 1..3 : calls[k].status = "threw"
    /\ \A n \in Tasks : ValueAt(n).type = "string"

(* C7: after a successful bulk call the k-th translatable task of the
   batch holds the k-th element of the returned list and every blank task
   holds "". *)
C7_RoundTripMerge ==
    Reconciled =>
        \A n \in Tasks :
            BulkSucceeded(n) =>
                ValueAt(n) = IF Translatable(n)
                             THEN BulkOf(n)[1].list[Rank(n)]
                             ELSE Str(Empty)

(* A blank task ahead of a translatable one: the second task of the batch
   takes the first element of the list. *)
C7_Witness ==
    /\ Reconciled
    /\ Len(keys) = 2
    /\ ~Translatable(1) /\ Translatable(2)
    /\ BulkSucceeded(2)
    /\ BulkOf(2)[1].list = <<Str(Si)>>
    /\ ValueAt(2) = Str(Si)
    /\ ValueAt(1) = Str(Empty)

(* C8: after a failed bulk call one call is made per translatable task, in
   batch order, each with that task's text alone; where all of them
   succeed every translatable task holds what its own call returned. *)
C8_GracefulDegradation ==
    Reconciled =>
        \A n \in Tasks :
            (BulkFailed(n) /\ Translatable(n)) =>
                /\ Len(ItemsOf(n)) = Len(toTranslateOf(batchOf(keys, BatchStart(n))))
                /\ ItemsOf(n)[Rank(n)].inputs = <<keys[n].value>>
                /\ (\A k \in 1..Len(ItemsOf(n)) : ItemsOf(n)[k].status = "ok")
                   => ValueAt(n) = ItemsOf(n)[Rank(n)].list[1]

(* Bulk failed, both item calls succeeded with different texts. *)
C8_Witness ==
    /\ Reconciled
    /\ Len(keys) = 2
    /\ BulkFailed(1)
    /\ Len(ItemsOf(1)) = 2
    /\ ItemsOf(1)[1].status = "ok" /\ ItemsOf(1)[2].status = "ok"
    /\ ValueAt(1) = Str(Si)
    /\ ValueAt(2) = Str(Ja)

(* C9: withRetries invokes the operation at most 3 times, each time after
   the previous invocation failed; it returns on the first success; it
   waits 400 ms after the first failure and 800 ms after the second, not
   after the third; when all three fail it throws the third failure. *)
LinearWaits(n) == [k \in 1..n |-> 400 * k]
RetriesFailed == callResult.error.kind \in FailureKinds
C9_RetryWrapper ==
    /\ invoked <= 3
    /\ pc = "fetch" =>
          /\ attempt = invoked + 1
          /\ attempt <= 3
          /\ waits = LinearWaits(invoked)
          /\ invoked > 0 => lastError.attempt = invoked
    /\ pc = "backoff" =>
          /\ invoked = attempt
          /\ attempt < 3
          /\ lastError.attempt = attempt
          /\ delay = 400 * attempt
          /\ waits = LinearWaits(attempt)
    /\ (pc = "callDone" /\ ~RetriesFailed) =>
          /\ invoked = attempt
          /\ waits = LinearWaits(invoked - 1)
    /\ (pc = "callDone" /\ RetriesFailed) =>
          /\ invoked = 3
          /\ waits = <<400, 800>>
          /\ callResult.status = "threw"
          /\ callResult.error = lastError
          /\ lastError.attempt = 3

(* The third invocation succeeded, after waits of 400 and 800 ms. *)
C9_Witness ==
    /\ pc = "callDone"
    /\ callResult.status = "ok"
    /\ invoked = 3
    /\ waits = <<400, 800>>

(* C10 as stated: the catalog is written once when its in-memory tree
   differs from what was loaded, and not written when no leaf was added
   and none translated. *)
C10_PersistedIffChanged ==
    pc = "done" =>
        /\ targetJson # JSONParse(runs[run].before) => writes = 1
        /\ (addedCount = 0 /\ translatedCount = 0) => writes = 0

(* C10 as amended: the catalog is written once, with the in-memory tree,
   when the diff found a task, and is not written otherwise. *)
C10_PersistedIffTasks ==
    /\ writes <= 1
    /\ pc = "done" =>
          IF addedCount > 0
          THEN writes = 1 /\ disk = FileText(targetJson)
          ELSE writes = 0 /\ disk = runs[run].before

(* A target value was discarded by coercion and nothing was written. *)
C10_Witness ==
    /\ pc = "done"
    /\ writes = 0
    /\ targetJson # JSONParse(disk)

(***************************************************************************)
(* The values the provider puts into the catalog.                          *)
(***************************************************************************)

(* C20 as stated: after translateAndApply the value at every task path is
   a string, whatever list of the right length the provider returned. *)
C20_StringLeafInvariant ==
    Reconciled => \A n \in Tasks : ValueAt(n).type = "string"

(***************************************************************************)
(* Which tasks of a batch are sent to the provider.                        *)
(***************************************************************************)
OnlyWhiteSpace(chars) == \A k \in 1..Len(chars) : chars[k] \in WhiteSpace
NotEmptyTasks(b) ==
    SelectSeq(batchOf(keys, b), LAMBDA task : task.value # Empty)
NotBlankTasks(b) ==
    SelectSeq(batchOf(keys, b), LAMBDA task : ~OnlyWhiteSpace(task.value))

(* C15 as stated: the bulk call of a batch carries the texts of all tasks
   whose source text is not the empty string, in batch order, and a batch
   is resolved without a call only when every source text is the empty
   string. *)
C15_PartitionByEmptiness ==
    /\ \A c \in 1..Len(calls) :
          calls[c].mode = "bulk" =>
              calls[c].inputs = Texts(NotEmptyTasks(calls[c].batch))
    /\ (pc = "apply" /\ calls = <<>>) =>
          \A n \in 1..Len(batch) : batch[n].value = Empty

(* C15 as amended: the bulk call of a batch carries, in batch order, the
   texts of the tasks whose source text has a character that is not white
   space; every other task, the empty and the white-space-only alike, is
   resolved to "" and is never sent, neither in bulk nor alone. *)
C15_PartitionByTrim ==
    /\ \A c \in 1..Len(calls) :
          /\ calls[c].mode = "bulk" =>
                calls[c].inputs = Texts(NotBlankTasks(calls[c].batch))
          /\ \A k \in 1..Len(calls[c].inputs) :
                ~OnlyWhiteSpace(calls[c].inputs[k])
    /\ pc = "apply" =>
          /\ \A n \in 1..Len(batch) :
                OnlyWhiteSpace(batch[n].value) =>
                    translatedKeys[n] = Str(Empty)
          /\ (\E n \in 1..Len(batch) : ~OnlyWhiteSpace(batch[n].value)) =>
                /\ calls # <<>>
                /\ calls[1].mode = "bulk"

(* A batch with a white-space-only text and a translatable one has been
   sent and is about to be written. *)
C15_Witness ==
    /\ pc = "apply"
    /\ \E n \in 1..Len(batch) : batch[n].value = Blank
    /\ \E n \in 1..Len(batch) : ~OnlyWhiteSpace(batch[n].value)
    /\ calls # <<>>
    /\ calls[1].inputs = <<Hi>>

(***************************************************************************)
(* The placeholders of the diff.                                           *)
(***************************************************************************)

(* C16: right after the diff every task path holds "" in the target tree,
   no two tasks have the same path, and from then on every task path
   holds a defined value. *)
C16_PlaceholderInvariant ==
    /\ pc = "diffed" => \A n \in Tasks : ValueAt(n) = Str(Empty)
    /\ \A m, n \in Tasks : keys[m].key = keys[n].key => m = n
    /\ \A n \in Tasks : ValueAt(n).type # "undefined"

(* Two tasks, one of them nested under a key the target did not have, one
   at a key the target did not have, with the first batch already written
   by the provider's answer. *)
C16_Witness ==
    /\ pc = "persist"
    /\ calls # <<>>
    /\ Len(keys) = 2
    /\ \E n \in Tasks :
          /\ Len(keys[n].key) = 2
          /\ Lookup(TargetBefore, <<keys[n].key[1]>>).type = "undefined"
    /\ \E n \in Tasks :
          /\ Len(keys[n].key) = 1
          /\ Lookup(TargetBefore, keys[n].key).type = "undefined"
    /\ \A n \in Tasks : ValueAt(n).type # "undefined"

(***************************************************************************)
(* What the diff and the reconciliation leave alone.                       *)
(***************************************************************************)

(* The tree as it was loaded: the file's content before this run. *)
Before == IF pc = "done" THEN JSONParse(runs[run].before) ELSE JSONParse(disk)

(* Same value at one place of the tree: objects compare by being objects,
   their entries are compared at their own paths. *)
SameHere(u, v) == u.type = v.type /\ (u.type # "object" => u = v)

(* The path lies below a task path. *)
UnderTask(p) == Len(p) = 2 /\ <<p[1]>> \in TaskPaths

(* C18 as stated: no target key absent from the source is removed, no
   non-empty string under a source string and no Object under a source
   Object is replaced, and only task paths and non-objects standing where
   the source has an Object change. *)
C18_Frame ==
    pc # "start" =>
        \A p \in Paths :
            LET s == Lookup(sourceJson, p)
                b == Lookup(Before, p)
                t == Lookup(targetJson, p)
            IN  /\ (s.type = "undefined" /\ b.type # "undefined")
                       => t.type # "undefined"
                /\ (s.type = "string" /\ b.type = "string" /\ b.str # Empty)
                       => t = b
                /\ (s.type = "object" /\ b.type = "object")
                       => t.type = "object"
                /\ ~SameHere(b, t)
                       => \/ p \in TaskPaths
                          \/ s.type = "object" /\ b.type # "object"

(* C18 as amended: the same, except for the keys below a task path: a
   target Object standing where the source has a string is a missing
   value, it is replaced by the placeholder and its keys go with it. *)
C18_FrameOutsideTasks ==
    pc # "start" =>
        \A p \in Paths :
            LET s == Lookup(sourceJson, p)
                b == Lookup(Before, p)
                t == Lookup(targetJson, p)
            IN  /\ (s.type = "undefined" /\ b.type # "undefined")
                       => IF UnderTask(p) THEN t.type = "undefined" ELSE t = b
                /\ (s.type = "string" /\ b.type = "string" /\ b.str # Empty)
                       => t = b
                /\ (s.type = "object" /\ b.type = "object")
                       => t.type = "object"
                /\ ~SameHere(b, t)
                       => \/ p \in TaskPaths
                          \/ s.type = "object" /\ b.type # "object"
                          \/ UnderTask(p)

(* A reconciled catalog that kept a key the source does not have and a
   translated leaf, next to a nested object that got a new leaf. *)
C18_Witness ==
    /\ Reconciled
    /\ \E p \in Paths :
          /\ Len(p) = 2
          /\ Lookup(sourceJson, p).type = "undefined"
          /\ Lookup(Before, p).type = "string"
          /\ Lookup(targetJson, p) = Lookup(Before, p)
    /\ \E p \in TaskPaths :
          /\ Len(p) = 2
          /\ Lookup(Before, <<p[1]>>).type = "object"
          /\ Lookup(targetJson, p).type = "string"
          /\ Lookup(targetJson, p).str # Empty

(***************************************************************************)
(* The order of the task list.                                             *)
(***************************************************************************)

(* The paths of the leaves of a tree in depth-first pre-order, the keys of
   every object in insertion order, from entry n of the object on. *)
RECURSIVE LeafPathsFrom(_, _, _)
LeafPathsFrom(tree, prefix, n) ==
    IF n > Len(tree.ent)
    THEN <<>>
    ELSE LET here == Append(prefix, tree.ent[n].key)
             below == IF tree.ent[n].val.type = "object"
                      THEN LeafPathsFrom(tree.ent[n].val, here, 1)
                      ELSE <<here>>
         IN  below \o LeafPathsFrom(tree, prefix, n + 1)

LeafPaths(tree) == LeafPathsFrom(tree, <<>>, 1)

(* C13: the tasks are listed in the order in which a depth-first pre-order
   walk of the source, keys in insertion order, meets their leaves; a
   task's path is the key sequence from the root to its leaf and its text
   is the source's string there. *)
C13_TaskOrder ==
    pc = "diffed" =>
        /\ [n \in Tasks |-> keys[n].key]
              = SelectSeq(LeafPaths(sourceJson), LAMBDA p : p \in TaskPaths)
        /\ \A n \in Tasks :
              Lookup(sourceJson, keys[n].key) = Str(keys[n].value)

(* A source that lists "c" before "a", with a leaf task at "c" followed by
   a nested task at "a"."b". *)
C13_Witness ==
    /\ pc = "diffed"
    /\ Len(keys) = 2
    /\ keys[1].key = <<"c">>
    /\ keys[2].key = <<"a", "b">>
    /\ sourceJson.ent[1].key = "c"

(***************************************************************************)
(* The batches of translateAndApply.                                       *)
(***************************************************************************)
RECURSIVE Flatten(_)
Flatten(lists) ==
    IF lists = <<>> THEN <<>> ELSE Head(lists) \o Flatten(Tail(lists))

Ceil(n, d) == (n + d - 1) \div d

(* C12: the batches taken are slices of BATCH_SIZE tasks, the last one
   possibly shorter, none empty; put end to end they are a prefix of the
   task list while the loop runs and the whole list once it is over, and
   there are then ceil(len(tasks) / BATCH_SIZE) of them. *)
C12_BatchPlanning ==
    /\ \A k \in 1..Len(batches) :
          /\ Len(batches[k]) \in 1..BATCH_SIZE
          /\ k < Len(batches) => Len(batches[k]) = BATCH_SIZE
    /\ Len(Flatten(batches)) <= Len(keys)
    /\ Flatten(batches) = SubSeq(keys, 1, Len(Flatten(batches)))
    /\ pc \in {"persist", "done"} =>
          /\ Flatten(batches) = keys
          /\ Len(batches) = Ceil(Len(keys), BATCH_SIZE)
          /\ Len(batches) > 0 =>
                Len(batches[Len(batches)])
                    = Len(keys) - BATCH_SIZE * (Len(batches) - 1)

(* A task list of two full batches and a last batch of one task. *)
C12_Witness ==
    /\ pc = "persist"
    /\ Len(keys) = 2 * BATCH_SIZE + 1
    /\ Len(batches) = 3
    /\ Len(batches[3]) = 1

(***************************************************************************)
(* One thing at a time.                                                    *)
(***************************************************************************)

(* The per-item calls of the batch that starts at b, as logged. *)
ItemInputs(b) ==
    LET own == SelectSeq(calls, LAMBDA c : c.batch = b /\ c.mode = "item")
    IN  [n \in 1..Len(own) |-> own[n].inputs[1]]

IsPrefix(s, t) == Len(s) <= Len(t) /\ s = SubSeq(t, 1, Len(s))

(* C19: at most one call is in flight; the calls are logged batch after
   batch, a batch's bulk call first and then its per-item calls in task
   order; while batch k is being called for or written, the tasks written
   so far are exactly those of the batches before it; and the tasks are
   written in task order. *)
C19_SequentialProcessing ==
    /\ inflight \in {0, 1}
    /\ inflight = 1 <=> pc \in {"fetch", "backoff", "callDone"}
    /\ \A c, d \in 1..Len(calls) :
          c < d =>
              /\ calls[c].batch <= calls[d].batch
              /\ calls[c].batch = calls[d].batch => calls[d].mode = "item"
    /\ \A c \in 1..Len(calls) :
          IsPrefix(ItemInputs(calls[c].batch),
                   Texts(toTranslateOf(SubSeq(keys, calls[c].batch + 1,
                                              Len(keys)))))
    /\ applied = [n \in 1..Len(applied) |-> n]
    /\ pc \in {"fetch", "backoff", "callDone", "apply"} => Len(applied) = i
    /\ pc \in {"persist", "done"} => Len(applied) = Len(keys)

(* The third batch is being called for item by item, after two batches
   that were written in full. *)
C19_Witness ==
    /\ pc = "fetch"
    /\ call.mode = "item"
    /\ i = 2 * BATCH_SIZE
    /\ Len(applied) = 2 * BATCH_SIZE
    /\ \E c \in 1..Len(calls) :
          calls[c].batch = BATCH_SIZE /\ calls[c].mode = "item"

(***************************************************************************)
(* The run over all catalogs.                                              *)
(***************************************************************************)
Skipped == {c \in 1..Len(catalogs) : catalogs[c].status = "skipped"}
Completed == {c \in 1..Len(catalogs) : catalogs[c].status = "ok"}

RECURSIVE SumAdded(_)
SumAdded(cs) ==
    IF cs = {}
    THEN 0
    ELSE LET c == CHOOSE x \in cs : TRUE
         IN  catalogs[c].added + SumAdded(cs \ {c})

(* C11 as stated: a catalog whose processing raised an error is not
   written partially, its counts are not in the totals, and the loop goes
   on to the end with the source as it was. *)
C11_FailureIsolation ==
    /\ \A c \in Skipped :
          \/ catalogs[c].after = catalogs[c].before
          \/ /\ Parses(catalogs[c].after)
             /\ catalogs[c].after = FileText(JSONParse(catalogs[c].after))
    /\ pc \in {"next", "exited"} => totalAdded = SumAdded(Completed)
    /\ (pc = "exited" /\ exitCode # 1) => pending = <<>>

(* C14: the run exits with 1 only before any catalog was taken up; once
   the loop is over it exits with 0 when a catalog that was processed to
   the end had a leaf added, and with 2 otherwise, whether or not some
   catalog was skipped. *)
C14_ExitCode ==
    /\ pc # "exited" => exitCode = 0
    /\ pc = "exited" =>
          /\ exitCode \in {0, 1, 2}
          /\ exitCode = 1 => catalogs = <<>>
          /\ exitCode # 1 =>
                /\ pending = <<>>
                /\ \A c \in 1..Len(catalogs) :
                      catalogs[c].status \in {"ok", "skipped"}
                /\ exitCode = IF \E c \in Completed : catalogs[c].added > 0
                              THEN 0
                              ELSE 2

(* The first catalog was skipped, the second had a leaf added, and the
   run exited with 0. *)
C14_Witness ==
    /\ pc = "exited"
    /\ Len(catalogs) = 2
    /\ catalogs[1].status = "skipped"
    /\ catalogs[2].status = "ok"
    /\ catalogs[2].added > 0
    /\ exitCode = 0

(***************************************************************************)
(* The timeout of a network call.                                          *)
(***************************************************************************)

(* C17 as stated: as long as a network call is under way, up to the
   arrival of the whole response, its 30 s timer is armed, so that a
   provider that stops answering is cut off by the timer. *)
C17_TimeoutCoversCall ==
    phase \in {"fetching", "body", "errorBody"} =>
        /\ timer
        /\ ENABLED TimerFires

====
